---- MODULE Spec2Model ----
(***************************************************************************)
(* Model of the method UploadFiles of publish (src/playstore/publish.go):  *)
(* the edit workflow against the Google Play catalog service               *)
(* (IGService, src/unnamed/part_001).  One run of UploadFiles is           *)
(* modelled step by step; every call on the catalog service and every     *)
(* file-system operation is an event of the run's trace.  The catalog      *)
(* service and the file system are the environment: each of their calls    *)
(* may succeed or fail, and the values they return are drawn from small    *)
(* sets.                                                                   *)
(***************************************************************************)
EXTENDS Integers, Sequences, FiniteSets, TLC

VARIABLES
    flags,     \* the command's flags AppBinOnly and AppBin (NoFlags outside the command)
    binaries,  \* local `files` of the command's upload(): the list Binaries returned
    cfg,       \* the arguments handed to Publish (NoConfig when the request is given)
    pubErr,    \* the error Publish returned: "pending" until it ran
    p,         \* the publish value: packageName, track, authFile, files, apk
    gs,        \* the IGService argument of UploadFiles: "nil" or "service"
    fs,        \* the file system p.fs: path -> content (sequence of bytes)
    pc,        \* position of the run inside UploadFiles / upload / uploadMapping
    edit,      \* local `edit` of UploadFiles (edit id returned by createEdit)
    idx,       \* index of the range loop over p.files (1-based)
    versions,  \* local `versions` of UploadFiles
    v,         \* local `v` of the loop body (version code of the current binary)
    hash,      \* local `hash` of upload (hex digest of the current binary)
    err,       \* local `err` that the run is about to return
    handles,   \* paths of the files currently open (opened, not yet closed)
    pos,       \* read position of the open file's stream
    trace,     \* every catalog call and file-system operation so far, in order
    result     \* what UploadFiles returned: "pending" until it returns

vars == <<flags, binaries, cfg, pubErr, p, gs, fs, pc, edit, idx, versions, v, hash, err, handles, pos, trace, result>>

-----------------------------------------------------------------------------
(* Bounds and input sets *)

\* The largest number of binaries in one request.
MaxBinaries == 2

BinPaths == {"app.aab", "lib.aab"}
MappingPaths == {"mapping.txt"}
AllPaths == BinPaths \cup MappingPaths

\* The bytes of "testinputdata" (TestFileSha256).
TestInputData == <<116, 101, 115, 116, 105, 110, 112, 117, 116, 100, 97, 116, 97>>

\* File contents: sequences of bytes.
BinContents == {<<>>, TestInputData}
MappingContents == {<<3>>}
Contents == BinContents \cup MappingContents

\* The file systems of a run: each path with a content of its kind.
FileSystems ==
    {f \in [AllPaths -> Contents] :
        /\ \A b \in BinPaths : f[b] \in BinContents
        /\ \A m \in MappingPaths : f[m] \in MappingContents}

PackageName == "com.sample.app"
AuthFile == "auth.json"

\* https://developers.google.com/android-publisher/tracks
TrackInternal == "internal"
TrackAlpha == "alpha"
TrackBeta == "beta"
TrackProduction == "production"

\* No arguments of Publish: the run starts from a request.
NoConfig == "none"

\* No flags: the run does not start from the command line.
NoFlags == "none"

\* Values the catalog service may return.
EditIds == {"1", "2"}
VersionCodes == {7, 8}
RemoteErrors == {"Error 500"}

\* binary{filePath, mappingPath}; mappingPath "" means no mapping
BinaryEntries == [filePath : BinPaths, mappingPath : {""} \cup MappingPaths]

RECURSIVE SeqsUpTo(_, _)
SeqsUpTo(S, n) ==
    IF n = 0 THEN {<<>>}
    ELSE LET shorter == SeqsUpTo(S, n - 1)
         IN  shorter \cup {Append(s, x) : s \in {t \in shorter : Len(t) = n - 1}, x \in S}

\* The files lists of a request Publish accepts: len(files) > 0.
FileLists == {s \in SeqsUpTo(BinaryEntries, MaxBinaries) : Len(s) > 0}

-----------------------------------------------------------------------------
(* Values *)

nil == "nil"

\* errors.New("no Google Playstore service instance provided")
ErrNoService == "no Google Playstore service instance provided"

\* The error a failing catalog call `op` returns; e is the service's cause.
RemoteErr(op, e) == op \o ": " \o e

\* The error of a failing file-system operation on `path`.
FsErr(op, path) == op \o " " \o path \o ": file does not exist"

\* fmt.Errorf("failed calculating '%s' sha256 hash: %w", filePath, err)
HashErr(path, e) == "failed calculating '" \o path \o "' sha256 hash: " \o e

\* fmt.Errorf("failed integrity verification with local file hash '%s' and remote '%s'", hash, sha256)
IntegrityErr(local, remote) ==
    "failed integrity verification with local file hash '" \o local
        \o "' and remote '" \o remote \o "'"

-----------------------------------------------------------------------------
(* fileSha256: digest and hex encoding *)

\* SHA-256 (FIPS 180-4), the hash crypto/sha256 computes.  A 32-bit word is
\* a pair <<high, low>> of 16-bit halves.
RECURSIVE Xor16(_, _)
Xor16(a, b) ==
    IF a = 0 THEN b
    ELSE IF b = 0 THEN a
    ELSE 2 * Xor16(a \div 2, b \div 2) + ((a + b) % 2)

RECURSIVE And16(_, _)
And16(a, b) ==
    IF a = 0 \/ b = 0 THEN 0
    ELSE 2 * And16(a \div 2, b \div 2) + ((a % 2) * (b % 2))

Xor(x, y) == <<Xor16(x[1], y[1]), Xor16(x[2], y[2])>>

And(x, y) == <<And16(x[1], y[1]), And16(x[2], y[2])>>

Not(x) == <<65535 - x[1], 65535 - x[2]>>

\* addition modulo 2^32
Add(x, y) ==
    LET lo == x[2] + y[2]
        hi == x[1] + y[1] + (lo \div 65536)
    IN  <<hi % 65536, lo % 65536>>

\* rotation to the right by n bits, 0 < n < 32
Rotr(x, n) ==
    LET y == IF n >= 16 THEN <<x[2], x[1]>> ELSE x
        m == n % 16
        q == 2 ^ m
        r == 2 ^ (16 - m)
    IN  IF m = 0 THEN y
        ELSE <<(y[1] \div q) + (y[2] % q) * r, (y[2] \div q) + (y[1] % q) * r>>

\* shift to the right by n bits, 0 < n < 16
Shr(x, n) ==
    LET q == 2 ^ n
        r == 2 ^ (16 - n)
    IN  <<x[1] \div q, (x[2] \div q) + (x[1] % q) * r>>

K256 ==
    <<
      <<17034, 12184>>, <<28983, 17553>>, <<46528, 64463>>, <<59829, 56229>>,
      <<14678, 49755>>, <<23025, 4593>>, <<37439, 33444>>, <<43804, 24277>>,
      <<55303, 43672>>, <<4739, 23297>>, <<9265, 34238>>, <<21772, 32195>>,
      <<29374, 23924>>, <<32990, 45566>>, <<39900, 1703>>, <<49563, 61812>>,
      <<58523, 27073>>, <<61374, 18310>>, <<4033, 40390>>, <<9228, 41420>>,
      <<11753, 11375>>, <<19060, 33962>>, <<23728, 43484>>, <<30457, 35034>>,
      <<38974, 20818>>, <<43057, 50797>>, <<45059, 10184>>, <<48985, 32711>>,
      <<50912, 3059>>, <<54695, 37191>>, <<1738, 25425>>, <<5161, 10599>>,
      <<10167, 2693>>, <<11803, 8504>>, <<19756, 28156>>, <<21304, 3347>>,
      <<25866, 29524>>, <<30314, 2747>>, <<33218, 51502>>, <<37490, 11397>>,
      <<41663, 59553>>, <<43034, 26187>>, <<49739, 35696>>, <<51052, 20899>>,
      <<53650, 59417>>, <<54937, 1572>>, <<62478, 13701>>, <<4202, 41072>>,
      <<6564, 49430>>, <<7735, 27656>>, <<10056, 30540>>, <<13488, 48309>>,
      <<14620, 3251>>, <<20184, 43594>>, <<23452, 51791>>, <<26670, 28659>>,
      <<29839, 33518>>, <<30885, 25455>>, <<33992, 30740>>, <<36039, 520>>,
      <<37054, 65530>>, <<42064, 27883>>, <<48889, 41975>>, <<50801, 30962>>
    >>

Init256 ==
    <<
      <<27145, 58983>>, <<47975, 44677>>, <<15470, 62322>>, <<42319, 62778>>,
      <<20750, 21119>>, <<39685, 26764>>, <<8067, 55723>>, <<23520, 52505>>
    >>

RECURSIVE Zeros(_)
Zeros(n) == IF n = 0 THEN <<>> ELSE <<0>> \o Zeros(n - 1)

\* The padded message: the bytes, 0x80, zeros, and the length in bits as a
\* 64-bit big-endian number, a multiple of 64 bytes in all.
Pad(m) ==
    LET bits == 8 * Len(m)
    IN  m \o <<128>> \o Zeros((119 - (Len(m) % 64)) % 64)
          \o <<0, 0, 0, 0, (bits \div 16777216) % 256, (bits \div 65536) % 256,
               (bits \div 256) % 256, bits % 256>>

\* The 16 big-endian words of a 64-byte block.
Words(block) ==
    [i \in 1..16 |->
        <<block[4 * i - 3] * 256 + block[4 * i - 2], block[4 * i - 1] * 256 + block[4 * i]>>]

SmallSigma0(x) == Xor(Xor(Rotr(x, 7), Rotr(x, 18)), Shr(x, 3))
SmallSigma1(x) == Xor(Xor(Rotr(x, 17), Rotr(x, 19)), Shr(x, 10))
BigSigma0(x) == Xor(Xor(Rotr(x, 2), Rotr(x, 13)), Rotr(x, 22))
BigSigma1(x) == Xor(Xor(Rotr(x, 6), Rotr(x, 11)), Rotr(x, 25))
Ch(x, y, z) == Xor(And(x, y), And(Not(x), z))
Maj(x, y, z) == Xor(Xor(And(x, y), And(x, z)), And(y, z))

\* The message schedule: 16 words extended to 64.
RECURSIVE Schedule(_)
Schedule(w) ==
    IF Len(w) = 64 THEN w
    ELSE LET t == Len(w) + 1
         IN  Schedule(Append(w,
                 Add(Add(SmallSigma1(w[t - 2]), w[t - 7]),
                     Add(SmallSigma0(w[t - 15]), w[t - 16]))))

\* Rounds t..64 of the compression function on the eight working variables s.
RECURSIVE Rounds(_, _, _)
Rounds(s, w, t) ==
    IF Len(s) # 8 \/ t > 64 THEN s
    ELSE LET t1 == Add(Add(Add(s[8], BigSigma1(s[5])), Add(Ch(s[5], s[6], s[7]), K256[t])), w[t])
             t2 == Add(BigSigma0(s[1]), Maj(s[1], s[2], s[3]))
         IN  Rounds(<<Add(t1, t2), s[1], s[2], s[3], Add(s[4], t1), s[5], s[6], s[7]>>, w, t + 1)

Compress(h, block) ==
    LET s == Rounds(h, Schedule(Words(block)), 1)
    IN  <<Add(h[1], s[1]), Add(h[2], s[2]), Add(h[3], s[3]), Add(h[4], s[4]),
          Add(h[5], s[5]), Add(h[6], s[6]), Add(h[7], s[7]), Add(h[8], s[8])>>

RECURSIVE Blocks(_, _)
Blocks(h, padded) ==
    IF padded = <<>> THEN h
    ELSE Blocks(Compress(h, SubSeq(padded, 1, 64)), SubSeq(padded, 65, Len(padded)))

RECURSIVE WordBytes(_)
WordBytes(ws) ==
    IF ws = <<>> THEN <<>>
    ELSE LET x == Head(ws)
         IN  <<x[1] \div 256, x[1] % 256, x[2] \div 256, x[2] % 256>> \o WordBytes(Tail(ws))

\* sha256.New(), Write(data), Sum(nil): the 32 bytes of the digest
Sha256(data) == WordBytes(Blocks(Init256, Pad(data)))

\* The digests of the binary contents of the model, computed once.
DigestTable == [c \in BinContents |-> Sha256(c)]

\* The digest h.Sum(nil) of the bytes written to h.
Sum256(data) == IF data \in BinContents THEN DigestTable[data] ELSE Sha256(data)

LowerHex == <<"0", "1", "2", "3", "4", "5", "6", "7", "8", "9", "a", "b", "c", "d", "e", "f">>
UpperHex == <<"0", "1", "2", "3", "4", "5", "6", "7", "8", "9", "A", "B", "C", "D", "E", "F">>

RECURSIVE Encode(_, _)
Encode(digits, bytes) ==
    IF bytes = <<>> THEN ""
    ELSE digits[(Head(bytes) \div 16) + 1] \o digits[(Head(bytes) % 16) + 1]
            \o Encode(digits, Tail(bytes))

\* Variant of EncodeToString: uppercase hexadecimal digits.
EncodeToString_Upper(bytes) == Encode(UpperHex, bytes)

\* hex.EncodeToString: two lowercase hexadecimal digits per byte
EncodeToString(bytes) == Encode(LowerHex, bytes)

\* The bytes a reader delivers from position `at` of `content` to its end
\* (io.Copy, io.ReadAll: read until EOF).
ReadFrom(content, at) == SubSeq(content, at + 1, Len(content))

\* fileSha256(r) on success: the hex digest of what io.Copy read from r
fileSha256(content, at) == EncodeToString(Sum256(ReadFrom(content, at)))

\* The sha256 strings the service may report for the bytes it received: the
\* digest in lowercase hex, the same digest in uppercase hex, or another value.
RemoteHashes(data) ==
    {EncodeToString(Sum256(data)), Encode(UpperHex, Sum256(data)), "randomValue"}

-----------------------------------------------------------------------------
(* The run *)

\* One event of the trace.  entry is the index of the binary the event
\* belongs to (0 for the calls on the edit itself); ret is the error returned.
Event(op, entry, path, ed, version, data, sha, ret) ==
    [op |-> op, entry |-> entry, path |-> path, pkg |-> p.packageName, edit |-> ed,
     version |-> version, data |-> data, sha |-> sha, ret |-> ret]

Init ==
    /\ flags = NoFlags
    /\ binaries = <<>>
    /\ cfg = NoConfig
    /\ pubErr = nil
    /\ p \in [packageName : {PackageName}, track : {TrackInternal}, authFile : {AuthFile},
              files : FileLists, apk : BOOLEAN]
    /\ gs \in {"nil", "service"}
    /\ fs \in FileSystems
    /\ pc = "UploadFiles"
    /\ edit = ""
    /\ idx = 0
    /\ versions = <<>>
    /\ v = 0
    /\ hash = ""
    /\ err = nil
    /\ handles = {}
    /\ pos = 0
    /\ trace = <<>>
    /\ result = "pending"

\* Variant of NoService: the nil test is missing.
NoService_Unchecked(g) == FALSE

\* if gs == nil { return errors.New(...) }
NoService(g) == g = "nil"

\* Variant of LoopPc: after the loop the run commits without validating.
LoopPc_SkipValidate(i) == IF i <= Len(p.files) THEN "open" ELSE "commitEdit"

\* The head of `for _, f := range p.files`: the i-th entry, or the code after the loop.
LoopPc(i) == IF i <= Len(p.files) THEN "open" ELSE "validateEdit"

Start ==
    /\ pc = "UploadFiles"
    /\ IF NoService(gs)
          THEN /\ result' = ErrNoService
               /\ pc' = "done"
          ELSE /\ pc' = "createEdit"
               /\ UNCHANGED result
    /\ UNCHANGED <<flags, binaries, cfg, pubErr, p, gs, fs, edit, idx, versions, v, hash, err, handles, pos, trace>>

\* Variant of AfterCreate: the error of createEdit is not tested.
AfterCreate_IgnoreError(ret) == LoopPc(1)

\* Where the run goes when createEdit returned ret.
AfterCreate(ret) == IF ret # nil THEN "done" ELSE LoopPc(1)

CreateEdit ==
    /\ pc = "createEdit"
    /\ \E r \in [id : EditIds, ret : {nil}]
                  \cup [id : {""}, ret : {RemoteErr("createEdit", e) : e \in RemoteErrors}] :
          /\ trace' = Append(trace, Event("createEdit", 0, "", r.id, 0, <<>>, "", r.ret))
          /\ edit' = r.id
          /\ idx' = 1
          /\ pc' = AfterCreate(r.ret)
          /\ result' = IF AfterCreate(r.ret) = "done" THEN r.ret ELSE result
    /\ UNCHANGED <<flags, binaries, cfg, pubErr, p, gs, fs, versions, v, hash, err, handles, pos>>

\* Variant of CurFile: the list is walked from its end.
CurFile_Reversed == p.files[Len(p.files) + 1 - idx]

\* f of the current loop iteration
CurFile == p.files[idx]

\* Variant of Close: the handle is never released.
Close_Leak(hs, path) == hs

\* defer f.Close() of upload and uploadMapping: the open handles after it ran
Close(hs, path) == hs \ {path}

\* Variant of SeekStart: the stream is left where io.Copy stopped.
SeekStart_Missing(content) == Len(content)

\* fileSha256: r.Seek(0, io.SeekStart), the position of the stream after it
SeekStart(content) == 0

\* upload: f, err := p.fs.Open(filePath)
OpenBinary ==
    /\ pc = "open"
    /\ \E ok \in BOOLEAN :
          LET path == CurFile.filePath
              ret == IF ok THEN nil ELSE FsErr("open", path)
          IN  /\ trace' = Append(trace, Event("open", idx, path, "", 0, <<>>, "", ret))
              /\ IF ok
                    THEN /\ handles' = handles \cup {path}
                         /\ pos' = 0
                         /\ pc' = "fileSha256"
                         /\ UNCHANGED <<err, v>>
                    ELSE /\ err' = ret
                         /\ v' = -1
                         /\ pc' = "deleteEdit"
                         /\ UNCHANGED <<handles, pos>>
    /\ UNCHANGED <<flags, binaries, cfg, pubErr, p, gs, fs, edit, idx, versions, hash, result>>

\* upload: hash, err := fileSha256(f).  io.Copy reads the stream to its end,
\* Seek(0, io.SeekStart) puts it back; either may fail.  On failure upload
\* returns the wrapped error and its deferred f.Close() runs.
FileSha256 ==
    /\ pc = "fileSha256"
    /\ \E out \in {"ok", "read", "seek"} :
          LET path == CurFile.filePath
              content == fs[path]
              cause == IF out = "ok" THEN nil ELSE FsErr(out, path)
              sum == IF out = "ok" THEN fileSha256(content, pos) ELSE ""
          IN  /\ trace' = Append(trace,
                     Event("fileSha256", idx, path, "", 0, ReadFrom(content, pos), sum, cause))
              /\ IF out = "ok"
                    THEN /\ hash' = sum
                         /\ pos' = SeekStart(content)
                         /\ pc' = "fileSize"
                         /\ UNCHANGED <<err, v, handles>>
                    ELSE /\ hash' = ""
                         /\ pos' = Len(content)
                         /\ err' = HashErr(path, cause)
                         /\ v' = -1
                         /\ handles' = Close(handles, path)
                         /\ pc' = "deleteEdit"
    /\ UNCHANGED <<flags, binaries, cfg, pubErr, p, gs, fs, edit, idx, versions, result>>

\* upload: Size: p.fileSize(filePath).  fileSize stats the path and calls
\* log.Fatal when Stat fails: the process exits there, no deferred call runs.
FileSize ==
    /\ pc = "fileSize"
    /\ \E ok \in BOOLEAN :
          LET path == CurFile.filePath
              ret == IF ok THEN nil ELSE FsErr("stat", path)
          IN  /\ trace' = Append(trace, Event("stat", idx, path, "", 0, <<>>, "", ret))
              /\ pc' = IF ok THEN "upload" ELSE "fatal"
    /\ UNCHANGED <<flags, binaries, cfg, pubErr, p, gs, fs, edit, idx, versions, v, hash, err, handles, pos, result>>

\* Variant of uplF: the flag is not consulted.
uplF_AlwaysBundle(isApk) == "uploadBundle"

\* upload: uplF := us.uploadBundle; if isApk { uplF = us.uploadApk }
uplF(isApk) == IF isApk THEN "uploadApk" ELSE "uploadBundle"

\* Variant of HashesMatch: the comparison ignores the case of the hex digits.
HashesMatch_IgnoreCase(local, remote) ==
    \E c \in BinContents :
        LET d == Sum256(c)
        IN  /\ local = Encode(LowerHex, d)
            /\ remote \in {Encode(LowerHex, d), Encode(UpperHex, d)}

\* upload: if sha256 != hash { return -1, <integrity error> }
HashesMatch(local, remote) == remote = local

\* upload: v, sha256, err := uplF(pReader, p.packageName, editId), the hash
\* comparison and the return (with the deferred f.Close()); then, back in
\* UploadFiles, versions = append(versions, v) and the mapping test.
UploadBinary ==
    /\ pc = "upload"
    /\ LET path == CurFile.filePath
           content == fs[path]
           data == ReadFrom(content, pos)
           op == uplF(p.apk)
       IN  \E r \in [v : VersionCodes, sha : RemoteHashes(data), ret : {nil}]
                      \cup [v : {-1}, sha : {""},
                            ret : {RemoteErr(op, e) : e \in RemoteErrors}] :
              /\ trace' = Append(trace, Event(op, idx, path, edit, r.v, data, r.sha, r.ret))
              /\ pos' = Len(content)
              /\ handles' = Close(handles, path)
              /\ IF r.ret # nil
                    THEN /\ err' = r.ret
                         /\ v' = -1
                         /\ pc' = "deleteEdit"
                         /\ UNCHANGED <<versions, idx>>
                    ELSE IF ~HashesMatch(hash, r.sha)
                    THEN /\ err' = IntegrityErr(hash, r.sha)
                         /\ v' = -1
                         /\ pc' = "deleteEdit"
                         /\ UNCHANGED <<versions, idx>>
                    ELSE /\ v' = r.v
                         /\ versions' = Append(versions, r.v)
                         /\ UNCHANGED err
                         /\ IF CurFile.mappingPath = ""
                               THEN /\ idx' = idx + 1
                                    /\ pc' = LoopPc(idx + 1)
                               ELSE /\ pc' = "openMapping"
                                    /\ UNCHANGED idx
    /\ UNCHANGED <<flags, binaries, cfg, pubErr, p, gs, fs, edit, hash, result>>

\* uploadMapping: f, err := p.fs.Open(filePath)
OpenMapping ==
    /\ pc = "openMapping"
    /\ \E ok \in BOOLEAN :
          LET path == CurFile.mappingPath
              ret == IF ok THEN nil ELSE FsErr("open", path)
          IN  /\ trace' = Append(trace, Event("open", idx, path, "", 0, <<>>, "", ret))
              /\ IF ok
                    THEN /\ handles' = handles \cup {path}
                         /\ pos' = 0
                         /\ pc' = "uploadMapping"
                         /\ UNCHANGED err
                    ELSE /\ err' = ret
                         /\ pc' = "deleteEdit"
                         /\ UNCHANGED <<handles, pos>>
    /\ UNCHANGED <<flags, binaries, cfg, pubErr, p, gs, fs, edit, idx, versions, v, hash, result>>

\* Variant of MappingVersion: the first version code of the run is passed.
MappingVersion_First(vs, cur) == vs[1]

\* UploadFiles: p.uploadMapping(gs, f.mappingPath, edit, v): the version code
\* handed to uploadMapping, given the versions so far and the current v.
MappingVersion(vs, cur) == cur

\* uploadMapping: err = us.uploadProguardMapping(f, p.packageName, editId,
\* appVersionCode) and the return (with the deferred f.Close()).
UploadMapping ==
    /\ pc = "uploadMapping"
    /\ LET path == CurFile.mappingPath
           content == fs[path]
           op == "uploadProguardMapping"
       IN  \E ret \in {nil} \cup {RemoteErr(op, e) : e \in RemoteErrors} :
              /\ trace' = Append(trace,
                     Event(op, idx, path, edit, MappingVersion(versions, v),
                           ReadFrom(content, pos), "", ret))
              /\ pos' = Len(content)
              /\ handles' = Close(handles, path)
              /\ IF ret # nil
                    THEN /\ err' = ret
                         /\ pc' = "deleteEdit"
                         /\ UNCHANGED idx
                    ELSE /\ idx' = idx + 1
                         /\ pc' = LoopPc(idx + 1)
                         /\ UNCHANGED err
    /\ UNCHANGED <<flags, binaries, cfg, pubErr, p, gs, fs, edit, versions, v, hash, result>>

\* Variant of AfterValidate: the error of validateEdit is not tested.
AfterValidate_IgnoreError(ret) == "commitEdit"

\* Where the run goes when validateEdit returned ret.
AfterValidate(ret) == IF ret # nil THEN "deleteEdit" ELSE "commitEdit"

\* UploadFiles: gs.validateEdit(p.packageName, edit)
ValidateEdit ==
    /\ pc = "validateEdit"
    /\ \E ret \in {nil} \cup {RemoteErr("validateEdit", e) : e \in RemoteErrors} :
          /\ trace' = Append(trace, Event("validateEdit", 0, "", edit, 0, <<>>, "", ret))
          /\ err' = ret
          /\ pc' = AfterValidate(ret)
    /\ UNCHANGED <<flags, binaries, cfg, pubErr, p, gs, fs, edit, idx, versions, v, hash, handles, pos, result>>

\* Variant of AfterCommit: the error of commitEdit is not tested.
AfterCommit_IgnoreError(ret) == "done"

\* Where the run goes when commitEdit returned ret.
AfterCommit(ret) == IF ret # nil THEN "deleteEdit" ELSE "done"

\* UploadFiles: gs.commitEdit(p.packageName, edit); on success return nil
CommitEdit ==
    /\ pc = "commitEdit"
    /\ \E ret \in {nil} \cup {RemoteErr("commitEdit", e) : e \in RemoteErrors} :
          /\ trace' = Append(trace, Event("commitEdit", 0, "", edit, 0, <<>>, "", ret))
          /\ err' = ret
          /\ pc' = AfterCommit(ret)
          /\ result' = IF AfterCommit(ret) = "done" THEN nil ELSE result
    /\ UNCHANGED <<flags, binaries, cfg, pubErr, p, gs, fs, edit, idx, versions, v, hash, handles, pos>>

\* Variant of Rollback: the error branch returns without calling deleteEdit.
Rollback_NoCall(tr, ev) == tr

\* The trace after the compensating call gs.deleteEdit(p.packageName, edit).
Rollback(tr, ev) == Append(tr, ev)

\* Variant of Returned: a failed deleteEdit replaces the error returned.
Returned_DeleteError(e, delRet) == IF delRet # nil THEN delRet ELSE e

\* `return err` after gs.deleteEdit(...), whose own result delRet is dropped.
Returned(e, delRet) == e

\* UploadFiles, each error branch after createEdit:
\*     gs.deleteEdit(p.packageName, edit); return err
DeleteEdit ==
    /\ pc = "deleteEdit"
    /\ \E ret \in {nil} \cup {RemoteErr("deleteEdit", e) : e \in RemoteErrors} :
          /\ trace' = Rollback(trace, Event("deleteEdit", 0, "", edit, 0, <<>>, "", ret))
          /\ result' = Returned(err, ret)
    /\ pc' = "done"
    /\ UNCHANGED <<flags, binaries, cfg, pubErr, p, gs, fs, edit, idx, versions, v, hash, err, handles, pos>>

Next ==
    \/ Start
    \/ CreateEdit
    \/ OpenBinary
    \/ FileSha256
    \/ FileSize
    \/ UploadBinary
    \/ OpenMapping
    \/ UploadMapping
    \/ ValidateEdit
    \/ CommitEdit
    \/ DeleteEdit

Spec == Init /\ [][Next]_vars

-----------------------------------------------------------------------------
(* Publish and the pstore command *)

\* Strings that Publish normalises are sequences of characters, so that
\* trimming and lower-casing are computed.
PackageChars == <<"c", "o", "m", ".", "s", "a", "m", "p", "l", "e", ".", "a", "p", "p">>

PackageInputs == {<<>>, <<" ", "\t">>, <<" ">> \o PackageChars \o <<"\t">>}

TrackInputs ==
    { <<"i", "n", "t", "e", "r", "n", "a", "l">>,
      <<"a", "l", "p", "h", "a">>,
      <<" ", "B", "e", "t", "A", " ">>,
      <<"p", "r", "o", "d", "u", "c", "t", "i", "o", "n">>,
      <<>>,
      <<" ", " ">> }

\* The arguments of Publish; exists is the set of paths fs.Stat finds.
Configs ==
    [packageName : PackageInputs, track : TrackInputs, authFile : {AuthFile},
     files : SeqsUpTo(BinaryEntries, MaxBinaries), apk : BOOLEAN,
     exists : SUBSET (AllPaths \cup {AuthFile})]

\* The nil *publish returned next to an error.
NoRequest == [packageName |-> "", track |-> "", authFile |-> "", files |-> <<>>, apk |-> FALSE]

\* unicode.IsSpace on the characters of the inputs.
IsSpace(c) == c \in {" ", "\t", "\n", "\r"}

RECURSIVE TrimLeft(_)
TrimLeft(s) == IF s # <<>> /\ IsSpace(Head(s)) THEN TrimLeft(Tail(s)) ELSE s

RECURSIVE TrimRight(_)
TrimRight(s) ==
    IF s # <<>> /\ IsSpace(s[Len(s)]) THEN TrimRight(SubSeq(s, 1, Len(s) - 1)) ELSE s

\* Variant of TrimSpace: the string is left as given.
TrimSpace_None(s) == s

\* strings.TrimSpace
TrimSpace(s) == TrimRight(TrimLeft(s))

UpperLetters ==
    <<"A", "B", "C", "D", "E", "F", "G", "H", "I", "J", "K", "L", "M",
      "N", "O", "P", "Q", "R", "S", "T", "U", "V", "W", "X", "Y", "Z">>

LowerLetters ==
    <<"a", "b", "c", "d", "e", "f", "g", "h", "i", "j", "k", "l", "m",
      "n", "o", "p", "q", "r", "s", "t", "u", "v", "w", "x", "y", "z">>

LowerChar(c) ==
    IF \E i \in DOMAIN UpperLetters : UpperLetters[i] = c
       THEN LowerLetters[CHOOSE i \in DOMAIN UpperLetters : UpperLetters[i] = c]
       ELSE c

\* strings.ToLower
ToLower(s) == [i \in DOMAIN s |-> LowerChar(s[i])]

\* The string of a sequence of characters.
RECURSIVE Str(_)
Str(s) == IF s = <<>> THEN "" ELSE Head(s) \o Str(Tail(s))

ErrAuthFile(file) == "authentication file '" \o file \o "' does not exist"
ErrPackageName == "package name must not be empty"
ErrTrackRequired == "track name to publish binary to is required"
ErrTrack(t) ==
    "provided track type '" \o t \o "' not supported. Only supported types are '"
        \o TrackBeta \o "' '" \o TrackAlpha \o "' '" \o TrackInternal \o "'"
ErrNoFiles == "no files to upload provided"
ErrBinary(file) == "binary file '" \o file \o "' does not exist"
ErrMapping(file) == "mappings file '" \o file \o "' does not exist"

\* Variant of fileExits: every path is reported as existing.
fileExits_Always(c, file) == TRUE

\* fileExits: fs.Stat(file) returned no error.
fileExits(c, file) == file \in c.exists

\* Variant of TrackSupported: the production track is accepted too.
TrackSupported_Production(t) == t \in {TrackBeta, TrackAlpha, TrackInternal, TrackProduction}

\* The negation of `t != TrackBeta && t != TrackAlpha && t != TrackInternal`.
TrackSupported(t) == t \in {TrackBeta, TrackAlpha, TrackInternal}

\* Variant of NoFiles: the length of the list is not tested.
NoFiles_Unchecked(files) == FALSE

\* len(files) == 0
NoFiles(files) == Len(files) = 0

\* Variant of MappingChecked: no mapping file is looked up.
MappingChecked_Never(f) == FALSE

\* f.mappingPath != ""
MappingChecked(f) == f.mappingPath # ""

\* `for _, f := range files`: the error of the first entry that fails, or nil.
RECURSIVE CheckFiles(_, _)
CheckFiles(c, i) ==
    IF i > Len(c.files) THEN nil
    ELSE LET f == c.files[i]
         IN  IF ~fileExits(c, f.filePath) THEN ErrBinary(f.filePath)
             ELSE IF MappingChecked(f) /\ ~fileExits(c, f.mappingPath)
                     THEN ErrMapping(f.mappingPath)
                     ELSE CheckFiles(c, i + 1)

\* Publish(fs, packageName, track, authFile, files, apk, verbose): the request
\* and the error it returns.
Publish(c) ==
    LET name == Str(TrimSpace(c.packageName))
        t    == Str(TrimSpace(ToLower(c.track)))
        fail(e) == [p |-> NoRequest, err |-> e]
    IN  IF ~fileExits(c, c.authFile) THEN fail(ErrAuthFile(c.authFile))
        ELSE IF name = "" THEN fail(ErrPackageName)
        ELSE IF t = "" THEN fail(ErrTrackRequired)
        ELSE IF ~TrackSupported(t) THEN fail(ErrTrack(t))
        ELSE IF NoFiles(c.files) THEN fail(ErrNoFiles)
        ELSE IF CheckFiles(c, 1) # nil THEN fail(CheckFiles(c, 1))
        ELSE [p   |-> [packageName |-> name, track |-> t, authFile |-> c.authFile,
                       files |-> c.files, apk |-> c.apk],
              err |-> nil]

\* The file system of the command's runs.
CommandFs == [x \in AllPaths |-> IF x \in BinPaths THEN TestInputData ELSE <<3>>]

\* The command before upload() calls Publish.
InitPublish ==
    /\ flags = NoFlags
    /\ binaries = <<>>
    /\ cfg \in Configs
    /\ pubErr = "pending"
    /\ p = NoRequest
    /\ gs = "nil"
    /\ fs = CommandFs
    /\ pc = "Publish"
    /\ edit = ""
    /\ idx = 0
    /\ versions = <<>>
    /\ v = 0
    /\ hash = ""
    /\ err = nil
    /\ handles = {}
    /\ pos = 0
    /\ trace = <<>>
    /\ result = "pending"

\* Variant of AfterPublish: the error of Publish is not tested.
AfterPublish_IgnoreError(e) == "NewGEditsService"

\* upload(): if err != nil { return fmt.Errorf("failed validating inputs: %w", err) }
AfterPublish(e) == IF e # nil THEN "exit" ELSE "NewGEditsService"

\* upload(): p, err := playstore.Publish(...)
PublishStep ==
    /\ pc = "Publish"
    /\ p' = Publish(cfg).p
    /\ pubErr' = Publish(cfg).err
    /\ pc' = AfterPublish(Publish(cfg).err)
    /\ UNCHANGED <<flags, binaries, cfg, gs, fs, edit, idx, versions, v, hash, err, handles, pos, trace, result>>

\* upload(): gs, err := playstore.NewGEditsService(SecretFile); the client is
\* constructed, or the command returns the error.
NewService ==
    /\ pc = "NewGEditsService"
    /\ \E ok \in BOOLEAN :
          /\ gs' = IF ok THEN "service" ELSE "nil"
          /\ pc' = IF ok THEN "UploadFiles" ELSE "exit"
    /\ UNCHANGED <<flags, binaries, cfg, pubErr, p, fs, edit, idx, versions, v, hash, err, handles, pos, trace, result>>

NextPublish ==
    \/ PublishStep
    \/ NewService
    \/ Next

SpecPublish == InitPublish /\ [][NextPublish]_vars

-----------------------------------------------------------------------------
(* The command's list of binaries *)

\* The maps of --appBin: some binary paths, each with a mapping path or "".
AppBins ==
    UNION {[S -> {""} \cup MappingPaths] : S \in SUBSET BinPaths}

\* The parsed flags: --appBinOnly may repeat a path.
Flags == [AppBinOnly : SeqsUpTo(BinPaths, MaxBinaries), AppBin : AppBins]

\* Variant of MergeOne: the binary-only path always gets the empty mapping.
MergeOne_Overwrite(bin, b) ==
    [x \in DOMAIN bin \cup {b} |-> IF x = b THEN "" ELSE bin[x]]

\* if _, ok := AppBin[v]; !ok { AppBin[v] = "" }
MergeOne(bin, b) ==
    IF b \in DOMAIN bin THEN bin
    ELSE [x \in DOMAIN bin \cup {b} |-> IF x = b THEN "" ELSE bin[x]]

\* `for _, v := range AppBinOnly`: AppBin after the loop.
RECURSIVE Merge(_, _, _)
Merge(bin, only, i) ==
    IF i > Len(only) THEN bin ELSE Merge(MergeOne(bin, only[i]), only, i + 1)

\* Binaries(m): one entry per key of the map, in any of the orders that
\* ranging over a map may produce.
Binaries(m) ==
    LET entries == {[filePath |-> k, mappingPath |-> m[k]] : k \in DOMAIN m}
    IN  {l \in [1..Cardinality(entries) -> entries] : \A e \in entries : \E i \in DOMAIN l : l[i] = e}

\* The command after its flags are parsed.
InitBinaries ==
    /\ flags \in Flags
    /\ binaries = <<>>
    /\ cfg = NoConfig
    /\ pubErr = "pending"
    /\ p = NoRequest
    /\ gs = "nil"
    /\ fs = CommandFs
    /\ pc = "RunE"
    /\ edit = ""
    /\ idx = 0
    /\ versions = <<>>
    /\ v = 0
    /\ hash = ""
    /\ err = nil
    /\ handles = {}
    /\ pos = 0
    /\ trace = <<>>
    /\ result = "pending"

\* RunE: without any binary the command fails, otherwise it calls upload().
RunE ==
    /\ pc = "RunE"
    /\ pc' = IF Len(flags.AppBinOnly) = 0 /\ Cardinality(DOMAIN flags.AppBin) = 0
                THEN "exit" ELSE "upload"
    /\ UNCHANGED <<flags, binaries, cfg, pubErr, p, gs, fs, edit, idx, versions, v, hash, err,
                   handles, pos, trace, result>>

\* upload(): the binary-only paths are merged into AppBin and
\* files := playstore.Binaries(AppBin).
MergeBinaries ==
    /\ pc = "upload"
    /\ binaries' \in Binaries(Merge(flags.AppBin, flags.AppBinOnly, 1))
    /\ pc' = "merged"
    /\ UNCHANGED <<flags, cfg, pubErr, p, gs, fs, edit, idx, versions, v, hash, err,
                   handles, pos, trace, result>>

NextBinaries ==
    \/ RunE
    \/ MergeBinaries

SpecBinaries == InitBinaries /\ [][NextBinaries]_vars

-----------------------------------------------------------------------------
(* Vocabulary of the properties *)

Events == DOMAIN trace

Calls(op) == {i \in Events : trace[i].op = op}

Count(op) == Cardinality(Calls(op))

UploadOps == {"uploadBundle", "uploadApk"}

\* The steps of one binary: open, hash, upload, mapping open and upload.
UploadStepOps == {"open", "fileSha256", "uploadProguardMapping"} \cup UploadOps

\* The lowercase hex digest of each content.
HexDigest == [c \in Contents |-> EncodeToString(Sum256(c))]

\* The hash of the k-th binary of the request, from the file's content.
LocalHash(k) == HexDigest[fs[p.files[k].filePath]]

\* Event e is a binary upload that succeeded and reported a hash that is not
\* the local one.
Mismatch(e) ==
    /\ e.op \in UploadOps
    /\ e.ret = nil
    /\ e.sha # LocalHash(e.entry)

\* Event e is a step that failed.
Failed(e) == e.ret # nil \/ Mismatch(e)

\* The error of the failed step e, as upload / uploadMapping / the catalog
\* call hands it to UploadFiles.
StepError(e) ==
    IF Mismatch(e) THEN IntegrityErr(LocalHash(e.entry), e.sha)
    ELSE IF e.op = "fileSha256" THEN HashErr(e.path, e.ret)
    ELSE e.ret

\* Every call so far succeeded and every reported hash equals the local one.
AllSucceeded == \A i \in Events : ~Failed(trace[i])

Ended == pc \in {"done", "fatal"}

-----------------------------------------------------------------------------
(* Properties *)

\* C1: when the client is present, every catalog call and file operation of
\* the run succeeds and every reported hash equals the local hash, the run
\* returns nil having called createEdit once, validateEdit once, commitEdit
\* once and deleteEdit never.
C1_SuccessfulRunCalls ==
    (Ended /\ gs = "service" /\ AllSucceeded) =>
        /\ result = nil
        /\ Count("createEdit") = 1
        /\ Count("validateEdit") = 1
        /\ Count("commitEdit") = 1
        /\ Count("deleteEdit") = 0

C1_Witness ==
    /\ pc = "done"
    /\ gs = "service"
    /\ AllSucceeded
    /\ Len(p.files) = MaxBinaries
    /\ \E k \in 1..Len(p.files) : p.files[k].mappingPath # ""
    /\ \E k \in 1..Len(p.files) : p.files[k].mappingPath = ""

\* C2: when a step of a binary failed (open, hashing, the upload call, the
\* hash comparison, the mapping open or upload) and the run returned,
\* deleteEdit was called exactly once and the error of that step was returned.
C2_UploadFailureRollsBack ==
    \A i \in Events :
        (pc = "done" /\ trace[i].op \in UploadStepOps /\ Failed(trace[i])) =>
            /\ Count("deleteEdit") = 1
            /\ result = StepError(trace[i])

C2_Witness ==
    /\ pc = "done"
    /\ \E i \in Events :
          /\ trace[i].op = "uploadProguardMapping"
          /\ trace[i].entry = MaxBinaries
          /\ Failed(trace[i])

\* C3: when validateEdit failed, commitEdit is never called and, once the
\* run returned, deleteEdit was called exactly once and the validateEdit
\* error was returned; when commitEdit failed and the run returned,
\* deleteEdit was called exactly once, after the commit, and the commitEdit
\* error was returned.
C3_ValidateCommitFailureRollsBack ==
    /\ \A i \in Calls("validateEdit") :
          trace[i].ret # nil =>
              /\ Count("commitEdit") = 0
              /\ pc = "done" =>
                    /\ Count("deleteEdit") = 1
                    /\ result = trace[i].ret
    /\ \A i \in Calls("commitEdit") :
          (trace[i].ret # nil /\ pc = "done") =>
              /\ Count("deleteEdit") = 1
              /\ \A d \in Calls("deleteEdit") : d > i
              /\ result = trace[i].ret

C3_Witness ==
    /\ pc = "done"
    /\ \E i \in Calls("commitEdit") : trace[i].ret # nil
    /\ \E d \in Calls("deleteEdit") : trace[d].ret # nil

\* C4: whatever deleteEdit returned, the run returns the error of the step
\* that failed before it, and never the error of deleteEdit.
C4_DeleteOutcomeIgnored ==
    \A d \in Calls("deleteEdit") :
        pc = "done" =>
            /\ \E i \in 1..(d - 1) :
                  /\ Failed(trace[i])
                  /\ result = StepError(trace[i])
            /\ result # trace[d].ret

C4_Witness ==
    /\ pc = "done"
    /\ \E d \in Calls("deleteEdit") :
          /\ trace[d].ret # nil
          /\ \E i \in 1..(d - 1) : Mismatch(trace[i])

\* Some commitEdit call succeeded.
Committed == \E c \in Calls("commitEdit") : trace[c].ret = nil

\* createEdit succeeded: the run holds an edit.
EditCreated == \E c \in Calls("createEdit") : trace[c].ret = nil

\* Event u is the successful upload of the k-th binary, with a matching hash.
UploadedOk(u, k) ==
    /\ trace[u].op \in UploadOps
    /\ trace[u].entry = k
    /\ trace[u].ret = nil
    /\ trace[u].sha = LocalHash(k)

\* Event m is a successful mapping upload of the k-th binary.
MappingOk(m, k) ==
    /\ trace[m].op = "uploadProguardMapping"
    /\ trace[m].entry = k
    /\ trace[m].ret = nil

\* C5: the run returns nil exactly when a commitEdit call succeeded;
\* commitEdit is called only after every binary was uploaded with a matching
\* hash, every non-empty mapping was uploaded and validateEdit succeeded; a
\* run that created an edit and ended without a successful commit did not
\* return nil (it returned an error, or the process exited in fileSize).
C5_NoPartialSuccess ==
    /\ (result = nil) <=> Committed
    /\ \A c \in Calls("commitEdit") :
          /\ \A k \in 1..Len(p.files) :
                /\ \E u \in 1..(c - 1) : UploadedOk(u, k)
                /\ p.files[k].mappingPath # "" => \E m \in 1..(c - 1) : MappingOk(m, k)
          /\ \E w \in 1..(c - 1) : trace[w].op = "validateEdit" /\ trace[w].ret = nil
    /\ (Ended /\ EditCreated /\ ~Committed) =>
          /\ result # nil
          /\ pc = "done" => result # "pending"

C5_Witness ==
    /\ pc = "done"
    /\ Committed
    /\ Len(p.files) = MaxBinaries
    /\ \A k \in 1..Len(p.files) : p.files[k].mappingPath # ""

\* C6: when createEdit failed, the run has returned that error and the
\* failed createEdit is the only catalog call and the only operation of the
\* run: nothing was uploaded, validated, committed or deleted, no file opened.
C6_CreateEditFailure ==
    \A c \in Calls("createEdit") :
        trace[c].ret # nil =>
            /\ Len(trace) = 1
            /\ pc = "done"
            /\ result = trace[c].ret
            /\ handles = {}

C6_Witness ==
    /\ pc = "done"
    /\ \E c \in Calls("createEdit") : trace[c].ret # nil

\* C7: with a nil client the run makes no catalog call and opens no file,
\* and it returns the no-service error at its first step.
C7_NilService ==
    gs = "nil" =>
        /\ trace = <<>>
        /\ handles = {}
        /\ pc \in {"UploadFiles", "done"}
        /\ pc = "done" => (result = ErrNoService /\ result # nil)

C7_Witness ==
    /\ gs = "nil"
    /\ pc = "done"

\* C8: the versions accepted so far all come from uploads whose reported hash
\* is exactly the local hash; after an upload reporting any other string
\* (the same digits in another case included) the only further call is one
\* deleteEdit: no mapping upload, no later binary, no validateEdit, no
\* commitEdit, and the run returns the integrity error naming both hashes.
C8_IntegrityCheck ==
    /\ \A k \in 1..Len(versions) : \E u \in Events : UploadedOk(u, k)
    /\ \A u \in Events :
          Mismatch(trace[u]) =>
              /\ \A j \in Events : j > u => trace[j].op = "deleteEdit"
              /\ Count("deleteEdit") <= 1
              /\ Len(versions) < trace[u].entry
              /\ pc \in {"deleteEdit", "done"}
              /\ pc = "done" =>
                    /\ Count("deleteEdit") = 1
                    /\ result = IntegrityErr(LocalHash(trace[u].entry), trace[u].sha)

C8_Witness ==
    /\ pc = "done"
    /\ Len(p.files) = MaxBinaries
    /\ p.files[1].mappingPath # ""
    /\ \E u \in Events :
          /\ Mismatch(trace[u])
          /\ trace[u].entry = 1
          /\ trace[u].sha = Encode(UpperHex, Sum256(trace[u].data))

\* C9: every uploadProguardMapping call belongs to an entry with a mapping
\* path, comes after that entry's successful, hash-checked upload and before
\* any step of a later entry, carries the version code that upload returned
\* and the edit id createEdit returned, and is the only one for its entry;
\* no step of a later entry happens before the mapping of an earlier entry
\* was uploaded; a successful run made exactly one such call per entry with
\* a mapping path and none for the others.
C9_MappingUpload ==
    /\ \A m \in Calls("uploadProguardMapping") :
          LET k == trace[m].entry
          IN  /\ p.files[k].mappingPath # ""
              /\ trace[m].path = p.files[k].mappingPath
              /\ \E u \in 1..(m - 1) :
                    /\ UploadedOk(u, k)
                    /\ trace[m].version = trace[u].version
              /\ \A j \in 1..(m - 1) : trace[j].entry <= k
              /\ \A n \in Calls("uploadProguardMapping") : n # m => trace[n].entry # k
              /\ \E c \in Calls("createEdit") :
                    trace[c].ret = nil /\ trace[c].edit = trace[m].edit
    /\ \A j \in Events : \A k \in 1..(trace[j].entry - 1) :
          p.files[k].mappingPath # "" => \E m \in 1..(j - 1) : MappingOk(m, k)
    /\ result = nil =>
          \A k \in 1..Len(p.files) :
              Cardinality({m \in Calls("uploadProguardMapping") : trace[m].entry = k})
                  = IF p.files[k].mappingPath # "" THEN 1 ELSE 0

C9_Witness ==
    /\ result = nil
    /\ Len(p.files) = MaxBinaries
    /\ p.files[1].mappingPath = ""
    /\ p.files[MaxBinaries].mappingPath # ""
    /\ \E i, j \in 1..Len(versions) : versions[i] # versions[j]

\* C10: with apk set no call of uploadBundle is made, without it no call of
\* uploadApk; a successful run made exactly one call of the selected
\* operation for each binary of the request.
C10_BinaryTypeSelectsOperation ==
    /\ p.apk => Count("uploadBundle") = 0
    /\ ~p.apk => Count("uploadApk") = 0
    /\ result = nil =>
          \A k \in 1..Len(p.files) :
              Cardinality({u \in Calls(IF p.apk THEN "uploadApk" ELSE "uploadBundle") :
                              trace[u].entry = k}) = 1

C10_Witness ==
    /\ result = nil
    /\ p.apk
    /\ Len(p.files) = MaxBinaries
    /\ Count("uploadApk") = MaxBinaries

\* The binary upload calls of the run, in order.
UploadCalls == SelectSeq(trace, LAMBDA e : e.op \in UploadOps)

\* C11: the k-th binary upload call of a run carries the k-th binary of the
\* request (its path and its content), so the calls are a prefix of the list
\* and no binary is uploaded twice; no step of binary k+1 happens before the
\* upload of binary k succeeded with a matching hash and its mapping, when it
\* has one, was uploaded; after a failed step nothing is tried again: the
\* only later call is deleteEdit.
C11_SequentialInOrder ==
    /\ Len(UploadCalls) <= Len(p.files)
    /\ \A k \in 1..Len(UploadCalls) :
          /\ UploadCalls[k].entry = k
          /\ UploadCalls[k].path = p.files[k].filePath
          /\ UploadCalls[k].data = fs[p.files[k].filePath]
    /\ \A j \in Events : \A k \in 1..(trace[j].entry - 1) :
          /\ \E u \in 1..(j - 1) : UploadedOk(u, k)
          /\ p.files[k].mappingPath # "" => \E m \in 1..(j - 1) : MappingOk(m, k)
    /\ \A i \in Events :
          (Failed(trace[i]) /\ trace[i].op # "deleteEdit") =>
              \A j \in Events : j > i => trace[j].op = "deleteEdit"

C11_Witness ==
    /\ Len(UploadCalls) = MaxBinaries
    /\ p.files[1].filePath # p.files[MaxBinaries].filePath
    /\ fs[p.files[1].filePath] # fs[p.files[MaxBinaries].filePath]
    /\ Failed(trace[Len(trace)])

\* C18: at most one file handle is open at any point of the run; every
\* open (of a binary or of a mapping) happens with no handle open, so the
\* handle of a binary is closed before its mapping and before the next
\* binary are opened; when UploadFiles has returned no handle is open.
C18_HandlesScoped ==
    /\ Cardinality(handles) <= 1
    /\ pc \in {"open", "openMapping"} => handles = {}
    /\ pc = "done" => handles = {}

C18_Witness ==
    /\ pc = "uploadMapping"
    /\ idx = MaxBinaries
    /\ handles = {p.files[idx].mappingPath}

\* C19: when the upload call starts the hash has been computed and the
\* stream is at position 0; every binary upload call was preceded by the
\* successful hashing of the same binary, and the bytes it delivered are the
\* bytes that were hashed, the full content of the file.
C19_SameBytesHashedAndSent ==
    /\ pc = "upload" =>
          /\ pos = 0
          /\ hash = HexDigest[fs[p.files[idx].filePath]]
    /\ \A u \in Events :
          trace[u].op \in UploadOps =>
              /\ trace[u].data = fs[trace[u].path]
              /\ \E h \in 1..(u - 1) :
                    /\ trace[h].op = "fileSha256"
                    /\ trace[h].entry = trace[u].entry
                    /\ trace[h].ret = nil
                    /\ trace[h].data = trace[u].data
                    /\ trace[h].sha = HexDigest[trace[u].data]

C19_Witness ==
    \E u \in Events :
        /\ trace[u].op \in UploadOps
        /\ trace[u].ret = nil
        /\ trace[u].entry = MaxBinaries
        /\ Len(trace[u].data) > 1

\* The successful fileSha256 calls of the run.
Hashed == {h \in Calls("fileSha256") : trace[h].ret = nil}

\* C20: every successful fileSha256 call hashed the full content of its file
\* and returned 64 hexadecimal digits; for the content "testinputdata" the
\* result is the lowercase SHA-256 test vector of TestFileSha256; two calls
\* on equal contents returned equal strings, and the hash kept by upload is
\* the one returned.
C20_FileSha256 ==
    /\ \A h \in Hashed :
          /\ trace[h].data = fs[trace[h].path]
          /\ Len(trace[h].sha) = 64
          /\ trace[h].data = TestInputData =>
                trace[h].sha = "b5a7e3884f760b197b8e9df98bab2d35333943bc7439e0bba00ed87213a44f43"
    /\ \A h1, h2 \in Hashed :
          trace[h1].data = trace[h2].data => trace[h1].sha = trace[h2].sha
    /\ (pc \in {"fileSize", "upload"} /\ fs[p.files[idx].filePath] = TestInputData) =>
          hash = "b5a7e3884f760b197b8e9df98bab2d35333943bc7439e0bba00ed87213a44f43"

C20_Witness ==
    \E h1, h2 \in Hashed :
        /\ h1 # h2
        /\ trace[h1].path # trace[h2].path
        /\ trace[h1].data = TestInputData
        /\ trace[h2].data = TestInputData

-----------------------------------------------------------------------------
(* Properties of Publish and of the command, stated on SpecPublish *)

\* Publish has returned.
Ran == pubErr # "pending"

\* The string is empty or made of white space only.
Blank(s) == \A i \in DOMAIN s : IsSpace(s[i])

AuthFound == cfg.authFile \in cfg.exists

\* The track as Publish compares it: lower-cased, then trimmed.
NormalTracks == [t \in TrackInputs |-> Str(TrimSpace(ToLower(t)))]

NormalTrack == NormalTracks[cfg.track]

Tracks == {TrackInternal, TrackAlpha, TrackBeta}

\* The checks Publish makes before it looks at the list of files all pass.
FieldsValid == AuthFound /\ ~Blank(cfg.packageName) /\ NormalTrack \in Tracks

\* The paths entry i refers to: its binary, and its mapping file when it names one.
Referenced(i) ==
    {cfg.files[i].filePath} \cup
        (IF cfg.files[i].mappingPath = "" THEN {} ELSE {cfg.files[i].mappingPath})

\* The entries that refer to a path that does not exist.
Lacking == {i \in DOMAIN cfg.files : Referenced(i) \ cfg.exists # {}}

\* The error for the first missing path in list order.
FirstMissing ==
    LET i == CHOOSE k \in Lacking : \A j \in Lacking : k <= j
    IN  IF cfg.files[i].filePath \notin cfg.exists
           THEN "binary file '" \o cfg.files[i].filePath \o "' does not exist"
           ELSE "mappings file '" \o cfg.files[i].mappingPath \o "' does not exist"

\* C12: for every configuration that Publish rejects (one with a missing
\* authentication file, a blank package name, a track outside the accepted
\* set, no files or a missing path), the command returns with no catalog
\* client constructed and no catalog operation or file operation of the
\* upload made; a client or a catalog call exists only after Publish
\* returned a request without error.
C12_RejectedBeforeRemote ==
    /\ (~FieldsValid \/ cfg.files = <<>> \/ Lacking # {}) => gs = "nil" /\ trace = <<>>
    /\ (Ran /\ pubErr # nil) => pc = "exit" /\ p = NoRequest /\ gs = "nil" /\ trace = <<>>
    /\ (gs # "nil" \/ trace # <<>>) => Ran /\ pubErr = nil /\ p # NoRequest

C12_Witness ==
    /\ pc = "exit"
    /\ pubErr = "binary file 'app.aab' does not exist"
    /\ trace = <<>>

\* C13 as stated: every track that is not one of the three strings is
\* rejected with the unsupported-track error naming that value.
C13_Original ==
    (Ran /\ Str(cfg.track) \notin Tracks) =>
        /\ p = NoRequest
        /\ pubErr = ErrTrack(Str(cfg.track))

\* C13: Publish compares the track lower-cased and trimmed.  A request whose
\* normalised track is not internal, alpha or beta is rejected and no request
\* is returned; when the authentication file exists and the package name is
\* not blank the error is the track-required error for an empty normalised
\* track and otherwise the unsupported-track error naming the normalised
\* value and the allowed set.  A track that normalises to one of the three
\* is never rejected for its track and is stored normalised.
C13_TrackSet ==
    Ran =>
        /\ NormalTrack \notin Tracks =>
              /\ pubErr # nil
              /\ p = NoRequest
              /\ (AuthFound /\ ~Blank(cfg.packageName)) =>
                    pubErr = IF NormalTrack = ""
                                THEN "track name to publish binary to is required"
                                ELSE "provided track type '" \o NormalTrack
                                        \o "' not supported. Only supported types are 'beta' 'alpha' 'internal'"
        /\ (NormalTrack \in Tracks /\ pubErr # nil) =>
              /\ pubErr # "track name to publish binary to is required"
              /\ pubErr # ErrTrack(NormalTrack)
        /\ pubErr = nil => p.track = NormalTrack /\ p.track \in Tracks

C13_Witness ==
    pubErr = "provided track type 'production' not supported. Only supported types are 'beta' 'alpha' 'internal'"

\* C14 as stated: whenever a referenced path is missing the error names a
\* missing path.
C14_Original ==
    (Ran /\ Lacking # {}) =>
        /\ p = NoRequest
        /\ \E i \in Lacking : \E m \in Referenced(i) \ cfg.exists :
              pubErr \in {ErrBinary(m), ErrMapping(m)}

\* C14: a request that refers to a path that does not exist, as a binary or
\* as a non-empty mapping path of any entry, is rejected and no request is
\* returned; when the authentication file exists, the package name is not
\* blank and the track is accepted, the error names the first missing path in
\* list order.  An empty mapping path is not looked up: a request whose
\* binaries and named mapping files all exist is accepted when its other
\* fields are valid.
C14_MissingPath ==
    Ran =>
        /\ Lacking # {} =>
              /\ pubErr # nil
              /\ p = NoRequest
              /\ FieldsValid => pubErr = FirstMissing
        /\ (Lacking = {} /\ FieldsValid /\ cfg.files # <<>>) =>
              /\ pubErr = nil
              /\ p.files = cfg.files

C14_Witness ==
    /\ pubErr = "mappings file 'mapping.txt' does not exist"
    /\ Len(cfg.files) = MaxBinaries
    /\ cfg.files[1].mappingPath = ""

\* C15: a request whose package name is empty or white space only is
\* rejected and no request is returned, whatever the other fields are; the
\* package name of a returned request is the input without its leading and
\* trailing white space.
C15_PackageName ==
    Ran =>
        /\ Blank(cfg.packageName) => pubErr # nil /\ p = NoRequest
        /\ pubErr = nil =>
              /\ p.packageName = Str(TrimSpace(cfg.packageName))
              /\ p.packageName = PackageName

C15_Witness ==
    /\ pubErr = "package name must not be empty"
    /\ cfg.packageName = <<" ", "\t">>
    /\ cfg.files # <<>>
    /\ Lacking = {}

\* What C16 says of UploadFiles: every validateEdit call comes after a call
\* of the upload operation for a binary.
UploadBeforeValidate ==
    \A e \in Calls("validateEdit") : \E u \in 1..(e - 1) : trace[u].op \in UploadOps

\* C16 as stated: every empty list is rejected with the no-files error.
C16_Original ==
    /\ (Ran /\ cfg.files = <<>>) =>
          /\ p = NoRequest
          /\ pubErr = ErrNoFiles
    /\ (Ran /\ pubErr = nil) => Len(p.files) >= 1
    /\ UploadBeforeValidate

\* C16: Publish rejects every empty list of binaries, with the no-files
\* error when the authentication file exists, the package name is not blank
\* and the track is accepted; so every request it returns has at least one
\* binary, and UploadFiles on it calls an upload operation before validateEdit.
C16_NoFiles ==
    /\ (Ran /\ cfg.files = <<>>) =>
          /\ pubErr # nil
          /\ p = NoRequest
          /\ FieldsValid => pubErr = "no files to upload provided"
    /\ (Ran /\ pubErr = nil) => Len(p.files) >= 1
    /\ UploadBeforeValidate

C16_Witness ==
    /\ pubErr = "no files to upload provided"
    /\ pc = "exit"

\* C17: when the authentication file does not exist Publish returns the
\* authentication-file error and no request, whether or not the package
\* name, the track and the binaries are valid.
C17_AuthFile ==
    (Ran /\ ~AuthFound) =>
        /\ pubErr = "authentication file 'auth.json' does not exist"
        /\ p = NoRequest

C17_Witness ==
    /\ Ran
    /\ ~AuthFound
    /\ ~Blank(cfg.packageName)
    /\ NormalTrack \in Tracks
    /\ cfg.files # <<>>
    /\ Lacking = {}
    /\ pubErr # nil

-----------------------------------------------------------------------------
(* Properties of the command's list of binaries, stated on SpecBinaries *)

\* The entries of the list for one path.
EntriesOf(b) == {i \in DOMAIN binaries : binaries[i].filePath = b}

\* The paths given by either flag.
GivenPaths == {flags.AppBinOnly[i] : i \in DOMAIN flags.AppBinOnly} \cup DOMAIN flags.AppBin

\* C21: the list handed to Publish has exactly one entry for each distinct
\* path given by either flag and no other entry; a path given by both flags
\* has one entry, with the mapping of the map; and every path the map gives
\* a non-empty mapping keeps that mapping.
C21_OneEntryPerPath ==
    pc = "merged" =>
        /\ \A b \in GivenPaths : Cardinality(EntriesOf(b)) = 1
        /\ Len(binaries) = Cardinality(GivenPaths)
        /\ \A i \in DOMAIN binaries : binaries[i].filePath \in GivenPaths
        /\ \A b \in DOMAIN flags.AppBin :
              \A i \in EntriesOf(b) : binaries[i].mappingPath = flags.AppBin[b]
        /\ \A i \in DOMAIN binaries :
              binaries[i].filePath \notin DOMAIN flags.AppBin => binaries[i].mappingPath = ""

C21_Witness ==
    /\ pc = "merged"
    /\ Len(binaries) = 2
    /\ \E i \in DOMAIN flags.AppBinOnly :
          /\ flags.AppBinOnly[i] \in DOMAIN flags.AppBin
          /\ flags.AppBin[flags.AppBinOnly[i]] # ""
          /\ \E k \in DOMAIN binaries :
                binaries[k].filePath = flags.AppBinOnly[i] /\ binaries[k].mappingPath # ""

-----------------------------------------------------------------------------
(* Properties of the edit's life cycle, stated on Spec *)

\* C22: a run that created an edit and ended, by returning or by the process
\* terminating, without a successful commitEdit has attempted deleteEdit.
C22_DeleteOnEveryExit ==
    (Ended /\ EditCreated /\ ~Committed) => Count("deleteEdit") >= 1

\* The process terminated in fileSize with the edit created and never deleted.
C22_Witness ==
    /\ pc = "fatal"
    /\ trace[Len(trace)].op = "stat"
    /\ trace[Len(trace)].ret # nil
    /\ EditCreated
    /\ ~Committed
    /\ Count("deleteEdit") = 0

CatalogOps == UploadOps \cup
    {"createEdit", "uploadProguardMapping", "validateEdit", "commitEdit", "deleteEdit"}

\* The catalog calls of the run, in order.
CatalogCalls == SelectSeq(trace, LAMBDA e : e.op \in CatalogOps)

\* Call b may come right after call a in the life of an edit: the next step
\* of the successful trace after a call that succeeded, or the deleteEdit
\* that abandons the edit; nothing follows a deleteEdit or a successful
\* commitEdit.
Follows(a, b) ==
    \/ /\ b.op = "deleteEdit"
       /\ a.op # "deleteEdit"
       /\ ~(a.op = "commitEdit" /\ a.ret = nil)
    \/ /\ a.ret = nil
       /\ \/ a.op = "createEdit" /\ b.op \in UploadOps /\ b.entry = 1
          \/ a.op \in UploadOps /\ b.op = "uploadProguardMapping" /\ b.entry = a.entry
          \/ a.op \in UploadOps \cup {"uploadProguardMapping"}
                /\ b.op \in UploadOps /\ b.entry = a.entry + 1
          \/ a.op \in UploadOps \cup {"uploadProguardMapping"}
                /\ b.op = "validateEdit" /\ a.entry = Len(p.files)
          \/ a.op = "validateEdit" /\ b.op = "commitEdit"

\* C23: the catalog calls of a run start with createEdit and each call
\* follows the one before it as the life of an edit allows; every call
\* carries the package name of the request and, after createEdit, the edit
\* id it returned; and a run that created an edit has ended only after a
\* successful commitEdit or after a deleteEdit as its last catalog call.
C23_EditStateMachine ==
    LET c == CatalogCalls
        n == Len(c)
    IN  /\ n > 0 => c[1].op = "createEdit"
        /\ \A i \in 1..(n - 1) : Follows(c[i], c[i + 1])
        /\ \A i \in 1..n : c[i].pkg = p.packageName /\ c[i].edit = c[1].edit
        /\ (Ended /\ EditCreated) =>
              \/ c[n].op = "commitEdit" /\ c[n].ret = nil
              \/ c[n].op = "deleteEdit"

\* The process terminated after a binary of the edit was uploaded: the edit
\* is left neither committed nor deleted.
C23_Witness ==
    /\ pc = "fatal"
    /\ idx > 1
    /\ CatalogCalls # <<>>
    /\ CatalogCalls[Len(CatalogCalls)].op \in UploadOps \cup {"uploadProguardMapping"}

====
